---- MODULE Spec2Model ----
(***************************************************************************)
(* The widget side of the MCP Apps (SEP-1865) message bridge of            *)
(* widget/hooks/useApp.ts: the module-level request counter and pending    *)
(* request map, sendRequest/sendNotification, and the useApp hook (its     *)
(* effect, its message listener, its cleanup and its request wrappers).    *)
(*                                                                         *)
(* JavaScript values are records.  An absent property is the value whose   *)
(* t field is "undefined"; null has t = "null".  A plain object used as a  *)
(* dictionary (HostContext, notification params) keeps its own properties  *)
(* in the function f.  The t-th call of sendRequest creates promise t and  *)
(* arms timer t; a pending record holds both under the id the call took.   *)
(*                                                                         *)
(* Three more components follow, each on variables of its own: the session *)
(* routing of server/index.ts, and the InteractiveCancellationWidget and   *)
(* the SizeChangeWidget of widget/widgets.                                 *)
(***************************************************************************)
EXTENDS Integers, Sequences, FiniteSets, TLC

VARIABLES
  requestId,        \* useApp.ts:54   let requestId = 1
  pendingRequests,  \* useApp.ts:55   Map<number, {resolve, reject, timeout}>
  timers,           \* armed setTimeout handles (browser timer table)
  promises,         \* promises[t]: the promise returned by the t-th sendRequest call
  outbox,           \* messages given to window.parent.postMessage, in order
  state,            \* state[h]: the AppState of hook instance h (useState)
  initialized,      \* initialized[h]: useRef(false)
  listeners,        \* hook instances whose handleMessage is registered on window
  mounted,          \* mounted[h]: the effect of h has run and not been cleaned up since
  hasCleanup,       \* hasCleanup[h]: the last effect run of h returned the cleanup function
  errorLog,         \* hooks whose initialize promise reached .catch (console.error)
  onToolCancelled,  \* onToolCancelled[h]: useRef(null); 0 is null, n > 0 a handler
  onTeardown,       \* onTeardown[h]: useRef(null)
  retired,          \* handlers a later assignment to a ref has replaced
  uncaught,         \* handlers whose exception left handleMessage uncaught
  last,             \* the step that produced the current state
  \* server/index.ts
  transports,       \* index.ts:43  Map<string, StreamableHTTPServerTransport>
  created,          \* created[t]: the t-th transport made by the /mcp handler
  servers,          \* servers[k]: the transport the k-th createServer() result is connected to
  awaiting,         \* /mcp handlers suspended between creating a transport and handling
  serverLast,       \* the server step that produced the current state
  \* InteractiveCancellationWidget.tsx
  status,           \* useState<ToolStatus>("idle")
  message,          \* useState<string>("")
  elapsedTime,      \* useState<number>(0), in timer ticks
  runHistory,       \* useState<RunResult[]>([])
  abortControllerRef, \* useRef(null): 0 is null, r > 0 the controller of run r
  timerRef,         \* useRef(null): 0 is null, r > 0 the interval started by run r
  intervals,        \* armed setInterval handles (browser timer table)
  runs,             \* runs[r]: the r-th call of handleStart and its tool call
  widgetLast,       \* the widget step that produced the current state
  \* SizeChangeWidget.tsx
  height,           \* useState(300)
  lastChange,       \* useState<number | null>(null): 0 is null (a change is never 0)
  resetArmed,       \* a setTimeout(() => setLastChange(null), 1000) is pending
  sizeSent,         \* heights given to app.sendSizeChanged
  sizeLast          \* the size step that produced the current state

\* widget/hooks/useApp.ts
hookVars == <<requestId, pendingRequests, timers, promises, outbox, state,
              initialized, listeners, mounted, hasCleanup, errorLog, onToolCancelled,
              onTeardown, retired, uncaught, last>>

\* server/index.ts
serverVars == <<transports, created, servers, awaiting, serverLast>>

\* widget/widgets/InteractiveCancellationWidget.tsx
cancelVars == <<status, message, elapsedTime, runHistory, abortControllerRef, timerRef,
                intervals, runs, widgetLast>>

\* widget/widgets/SizeChangeWidget.tsx
sizeVars == <<height, lastChange, resetArmed, sizeSent, sizeLast>>

vars == <<hookVars, serverVars, cancelVars, sizeVars>>

\* what no operation of useApp.ts touches
others == <<serverVars, cancelVars, sizeVars>>

-----------------------------------------------------------------------------
(* Bounds *)

\* sendRequest calls explored (ids 1..MaxRequests)
MaxRequests == 3

\* hook instances that may exist in the page
Hooks == {1, 2}

-----------------------------------------------------------------------------
(* JavaScript values *)

EmptyObj == [k \in {} |-> ""]

Undefined == [t |-> "undefined", f |-> EmptyObj]
Null == [t |-> "null", f |-> EmptyObj]
Obj(fields) == [t |-> "object", f |-> fields]

NoId == [t |-> "undefined", v |-> 0]
NumId(n) == [t |-> "number", v |-> n]
StrId(n) == [t |-> "string", v |-> n]

NoResult == [t |-> "undefined", v |-> 0, hostContext |-> Undefined]
NullResult == [t |-> "null", v |-> 0, hostContext |-> Undefined]
ResultObj(n, hc) == [t |-> "object", v |-> n, hostContext |-> hc]

NoError == [t |-> "undefined", code |-> 0, message |-> ""]
ErrorObj(c, m) == [t |-> "object", code |-> c, message |-> m]

NoMethod == "undefined"

\* shared/types.ts JSONRPCMessage; jsonrpc # "2.0" stands for foreign traffic
Message(tag, id, method, params, result, error) ==
  [jsonrpc |-> tag, id |-> id, method |-> method, params |-> params,
   result |-> result, error |-> error]

-----------------------------------------------------------------------------
(* Module-level constants and helpers of useApp.ts *)

REQUEST_TIMEOUT == 30000

InitializeMethod == "ui/initialize"
AppMethods == {"tools/call", "resources/read", "ui/message", "ui/open-link"}
Methods == AppMethods \cup {InitializeMethod}

\* new Error(`Request timeout: ${method}`)
TimeoutError(method) == [message |-> "Request timeout: " \o method]

\* new Error(data.error.message)
RemoteError(error) == [message |-> error.message]

NoReason == [message |-> ""]

\* a promise as created by `new Promise(...)` inside sendRequest
\* with what its closures captured: the id, the method, the calling hook
NewPromise(h, id, method, cont) ==
  [status |-> "pending", value |-> NoResult, reason |-> NoReason, settles |-> 0,
   hook |-> h, id |-> id, method |-> method, cont |-> cont]

\* resolve(v): only the first resolve/reject call of a promise has an effect
Resolve(p, v) ==
  IF p.status = "pending"
  THEN [p EXCEPT !.status = "fulfilled", !.value = v, !.settles = @ + 1]
  ELSE [p EXCEPT !.settles = @ + 1]

\* reject(e)
Reject(p, e) ==
  IF p.status = "pending"
  THEN [p EXCEPT !.status = "rejected", !.reason = e, !.settles = @ + 1]
  ELSE [p EXCEPT !.settles = @ + 1]

\* a lookup that compares the id loosely, so that "1" finds the key 1
MapHas_Coerced(map, id) == id.v \in DOMAIN map

\* Map.prototype.get on pendingRequests: keys are numbers, compared by SameValueZero,
\* so a string id never equals a numeric key
MapHas(map, id) == id.t = "number" /\ id.v \in DOMAIN map

\* a lookup that takes the oldest record, as if responses came in send order
MapGet_Oldest(map, id) == map[CHOOSE k \in DOMAIN map : \A j \in DOMAIN map : k <= j]

\* Map.prototype.get, for an id the map has
MapGet(map, id) == map[id.v]

\* a delete that removes nothing
MapDelete_Kept(map, id) == map

\* Map.prototype.delete
MapDelete(map, id) ==
  IF MapHas(map, id) THEN [k \in DOMAIN map \ {id.v} |-> map[k]] ELSE map

\* Map.prototype.set
MapSet(map, k, rec) == [j \in DOMAIN map \cup {k} |-> IF j = k THEN rec ELSE map[j]]

EmptyMap == [k \in {} |-> [promise |-> 0, timeout |-> 0]]

\* clearTimeout left out
ClearTimeout_Forgotten(armed, handle) == armed

\* clearTimeout(handle) on the timer table
ClearTimeout(armed, handle) == armed \ {handle}

\* setTimeout(...) on the timer table
SetTimeout(armed, handle) == armed \cup {handle}

\* a counter that is read but not advanced
NextId_Stuck(n) == n

\* a counter that starts over
NextId_Wrap(n) == IF n >= 2 THEN 1 ELSE n + 1

\* requestId++ : the value requestId holds afterwards
NextId(n) == n + 1

InitialAppState ==
  [isConnected |-> FALSE, hostContext |-> Null, toolInput |-> Null,
   toolResult |-> Null, isCancelled |-> FALSE, isTearingDown |-> FALSE]

NoMessage == Message("none", NoId, NoMethod, Undefined, NoResult, NoError)

\* what `last` records of a step: the operation, the hook instance and the request
\* id it was about; of a handled message its tag, id, method and which of result
\* and error it carried, and whether it found a pending record; the CustomEvents
\* dispatched on window and the handlers invoked
Step(op, h, id, msg, matched, events, invoked) ==
  [op |-> op, hook |-> h, id |-> id, jsonrpc |-> msg.jsonrpc, msgId |-> msg.id,
   method |-> msg.method, hasResult |-> msg.result.t # "undefined",
   hasError |-> msg.error.t # "undefined", matched |-> matched,
   events |-> events, invoked |-> invoked]

\* a step that handles no message
Plain(op, h, id) == Step(op, h, id, NoMessage, FALSE, {}, {})

NoStep == Plain("none", 0, 0)

NoTransports == [k \in {} |-> 0]

\* module load of server/index.ts
ServerInit ==
  /\ transports = NoTransports
  /\ created = <<>>
  /\ servers = <<>>
  /\ awaiting = {}
  /\ serverLast = [op |-> "none", header |-> 0, kind |-> "none", transport |-> 0,
                   fresh |-> FALSE]

\* first render of InteractiveCancellationWidget
CancelInit ==
  /\ status = "idle"
  /\ message = ""
  /\ elapsedTime = 0
  /\ runHistory = <<>>
  /\ abortControllerRef = 0
  /\ timerRef = 0
  /\ intervals = {}
  /\ runs = <<>>
  /\ widgetLast = [op |-> "none", run |-> 0]

\* first render of SizeChangeWidget and its mount effect: sendSizeChanged({height: 300})
SizeInit ==
  /\ height = 300
  /\ lastChange = 0
  /\ resetArmed = FALSE
  /\ sizeSent = {300}
  /\ sizeLast = [op |-> "mount", has |-> TRUE, requested |-> 300, sent |-> TRUE]

Init ==
  /\ ServerInit /\ CancelInit /\ SizeInit
  /\ requestId = 1
  /\ pendingRequests = EmptyMap
  /\ timers = {}
  /\ promises = <<>>
  /\ outbox = <<>>
  /\ state = [h \in Hooks |-> InitialAppState]
  /\ initialized = [h \in Hooks |-> FALSE]
  /\ listeners = {}
  /\ mounted = [h \in Hooks |-> FALSE]
  /\ hasCleanup = [h \in Hooks |-> FALSE]
  /\ errorLog = {}
  /\ onToolCancelled = [h \in Hooks |-> 0]
  /\ onTeardown = [h \in Hooks |-> 0]
  /\ retired = {}
  /\ uncaught = {}
  /\ last = NoStep

-----------------------------------------------------------------------------
(* sendRequest / sendNotification *)

RequestMessage(id, method) ==
  Message("2.0", NumId(id), method, Obj(EmptyObj), NoResult, NoError)

\* a notification that takes an id as a request does
NotificationMessage_Numbered(method) ==
  Message("2.0", NumId(0), method, Undefined, NoResult, NoError)

\* sendNotification: { jsonrpc: "2.0", method, params }
NotificationMessage(method) ==
  Message("2.0", NoId, method, Undefined, NoResult, NoError)

\* sendRequest(method, params) called by hook h; cont names the continuation the
\* caller attaches to the returned promise ("init": the .then/.catch of the effect,
\* "app": the caller of callTool/readResource/sendMessage/openLink)
sendRequest(h, method, cont) ==
  LET id == requestId IN
  /\ requestId' = NextId(requestId)
  /\ outbox' = Append(outbox, RequestMessage(id, method))
  /\ promises' = Append(promises, NewPromise(h, id, method, cont))
  /\ timers' = SetTimeout(timers, Len(promises) + 1)
  /\ pendingRequests' = MapSet(pendingRequests, id,
                                [promise |-> Len(promises) + 1, timeout |-> Len(promises) + 1])

\* the setTimeout callback armed by the t-th sendRequest call fires
TimeoutFires(t) ==
  /\ t \in timers
  /\ timers' = timers \ {t}
  /\ pendingRequests' = MapDelete(pendingRequests, NumId(promises[t].id))
  /\ promises' = [promises EXCEPT ![t] = Reject(@, TimeoutError(@.method))]
  /\ errorLog' = IF promises[t].cont = "init" /\ promises[t].status = "pending"
                 THEN errorLog \cup {promises[t].hook} ELSE errorLog
  /\ last' = Plain("timeout", promises[t].hook, t)
  /\ UNCHANGED <<requestId, outbox, state, initialized, listeners, mounted, hasCleanup,
                 onToolCancelled, onTeardown, retired, uncaught, others>>

-----------------------------------------------------------------------------
(* useApp: the effect and its cleanup *)

\* an effect that never returns early
EarlyReturn_Never(flag) == FALSE

\* if (initialized.current) return;
EarlyReturn(flag) == flag

\* useEffect(() => {...}, []) body
Effect(h) ==
  /\ ~mounted[h]
  /\ mounted' = [mounted EXCEPT ![h] = TRUE]
  /\ IF EarlyReturn(initialized[h])
     THEN /\ hasCleanup' = [hasCleanup EXCEPT ![h] = FALSE]
          /\ UNCHANGED <<requestId, pendingRequests, timers, promises, outbox,
                         initialized, listeners>>
     ELSE /\ Len(promises) < MaxRequests
          /\ initialized' = [initialized EXCEPT ![h] = TRUE]
          /\ listeners' = listeners \cup {h}
          /\ sendRequest(h, InitializeMethod, "init")
          /\ hasCleanup' = [hasCleanup EXCEPT ![h] = TRUE]
  /\ last' = Plain("effect", h, 0)
  /\ UNCHANGED <<state, errorLog, onToolCancelled, onTeardown, retired, uncaught, others>>

\* a loop over the pending records that clears no timer
ClearAll_None(armed, handles) == armed

\* clearTimeout on every handle of a set
RECURSIVE ClearAll(_, _)
ClearAll(armed, handles) ==
  IF handles = {} THEN armed
  ELSE LET x == CHOOSE y \in handles : TRUE
       IN ClearAll(ClearTimeout(armed, x), handles \ {x})

\* the function the effect returns, run by React when the effect is torn down
Cleanup(h) ==
  /\ mounted[h]
  /\ mounted' = [mounted EXCEPT ![h] = FALSE]
  /\ IF hasCleanup[h]
     THEN /\ listeners' = listeners \ {h}
          /\ timers' = ClearAll(timers, {pendingRequests[i].timeout : i \in DOMAIN pendingRequests})
          /\ pendingRequests' = EmptyMap
     ELSE UNCHANGED <<listeners, timers, pendingRequests>>
  /\ hasCleanup' = [hasCleanup EXCEPT ![h] = FALSE]
  /\ last' = Plain("cleanup", h, 0)
  /\ UNCHANGED <<requestId, promises, outbox, state, initialized, errorLog,
                 onToolCancelled, onTeardown, retired, uncaught, others>>

\* callTool / readResource / sendMessage / openLink
AppSend(h, method) ==
  /\ Len(promises) < MaxRequests
  /\ sendRequest(h, method, "app")
  /\ last' = Plain("send", h, Len(promises) + 1)
  /\ UNCHANGED <<state, initialized, listeners, mounted, hasCleanup, errorLog,
                 onToolCancelled, onTeardown, retired, uncaught, others>>

-----------------------------------------------------------------------------
(* useApp: handleMessage *)

\* JavaScript truthiness of data.error: an object is truthy, undefined is not
Truthy(v) == v.t = "object"

\* a guard that only tests `!data`
IsTagged_AnyObject(m) == TRUE

\* `!data || data.jsonrpc !== "2.0"` is false
IsTagged(m) == m.jsonrpc = "2.0"

\* a response test that gives way to the method
IsResponse_NoMethod(m) ==
  /\ m.id.t # "undefined" /\ (m.result.t # "undefined" \/ Truthy(m.error))
  /\ m.method = NoMethod

\* a response test that looks at the id alone
IsResponse_AnyId(m) == m.id.t # "undefined"

\* data.id !== undefined && (data.result !== undefined || data.error)
IsResponse(m) == m.id.t # "undefined" /\ (m.result.t # "undefined" \/ Truthy(m.error))

\* a settlement that looks at the result first
SettleByResponse_ResultFirst(p, m) ==
  IF m.result.t # "undefined" THEN Resolve(p, m.result) ELSE Reject(p, RemoteError(m.error))

\* the settlement of the pending promise p by response m
SettleByResponse(p, m) ==
  IF Truthy(m.error) THEN Reject(p, RemoteError(m.error)) ELSE Resolve(p, m.result)

\* a ?? b
NullishCoalesce(a, b) == IF a.t \in {"undefined", "null"} THEN b ELSE a

\* the own properties copied by the object spread ...v
Spread(v) == IF v.t = "object" THEN v.f ELSE EmptyObj

\* a merge that keeps only the later object
SpreadMerge_Replace(a, b) == Obj(Spread(b))

\* { ...a, ...b }
SpreadMerge(a, b) ==
  Obj([k \in DOMAIN Spread(a) \cup DOMAIN Spread(b) |->
         IF k \in DOMAIN Spread(b) THEN Spread(b)[k] ELSE Spread(a)[k]])

\* a .then callback that drops the host context of the result
InitThen_NoContext(s, result) == [s EXCEPT !.isConnected = TRUE]

\* a .then callback that builds the state anew
InitThen_Reset(s, result) ==
  [isConnected |-> TRUE, hostContext |-> NullishCoalesce(result.hostContext, Null),
   toolInput |-> Null, toolResult |-> Null, isCancelled |-> FALSE,
   isTearingDown |-> FALSE]

\* the .then callback of the ui/initialize request: setState
InitThen(s, result) ==
  [s EXCEPT !.isConnected = TRUE,
            !.hostContext = NullishCoalesce(result.hostContext, Null)]

\* result.hostContext throws a TypeError when result is null
InitThenThrows(result) == result.t \in {"null", "undefined"}

\* a switch that matches "context-change" as it matches "ui/host-context-change"
Notify_SuffixMatch(s, m) ==
  CASE m.method = "ui/notifications/tool-input" -> [s EXCEPT !.toolInput = m.params]
    [] m.method = "ui/notifications/tool-result" -> [s EXCEPT !.toolResult = m.params]
    [] m.method \in {"ui/host-context-change", "context-change"} ->
         [s EXCEPT !.hostContext = SpreadMerge(s.hostContext, m.params)]
    [] m.method = "ui/tool-cancelled" -> [s EXCEPT !.isCancelled = TRUE]
    [] m.method = "ui/resource-teardown" -> [s EXCEPT !.isTearingDown = TRUE]
    [] OTHER -> s

\* a switch whose ui/tool-cancelled case toggles the flag
Notify_Toggle(s, m) ==
  CASE m.method = "ui/notifications/tool-input" -> [s EXCEPT !.toolInput = m.params]
    [] m.method = "ui/notifications/tool-result" -> [s EXCEPT !.toolResult = m.params]
    [] m.method = "ui/host-context-change" ->
         [s EXCEPT !.hostContext = SpreadMerge(s.hostContext, m.params)]
    [] m.method = "ui/tool-cancelled" -> [s EXCEPT !.isCancelled = ~s.isCancelled]
    [] m.method = "ui/resource-teardown" -> [s EXCEPT !.isTearingDown = TRUE]
    [] OTHER -> s

\* the setState updater of the notification switch
Notify(s, m) ==
  CASE m.method = "ui/notifications/tool-input" -> [s EXCEPT !.toolInput = m.params]
    [] m.method = "ui/notifications/tool-result" -> [s EXCEPT !.toolResult = m.params]
    [] m.method = "ui/host-context-change" ->
         [s EXCEPT !.hostContext = SpreadMerge(s.hostContext, m.params)]
    [] m.method = "ui/tool-cancelled" -> [s EXCEPT !.isCancelled = TRUE]
    [] m.method = "ui/resource-teardown" -> [s EXCEPT !.isTearingDown = TRUE]
    [] OTHER -> s

\* the CustomEvent the notification switch dispatches on window
EventOf(method) ==
  CASE method = "ui/notifications/tool-input" -> {"mcp:tool-input"}
    [] method = "ui/notifications/tool-result" -> {"mcp:tool-result"}
    [] method = "ui/host-context-change" -> {"mcp:context-change"}
    [] method = "ui/tool-cancelled" -> {"mcp:tool-cancelled"}
    [] method = "ui/resource-teardown" -> {"mcp:teardown"}
    [] OTHER -> {}

\* the handler refs called with ?.() by the listener of hook h
InvokedBy(h, method) ==
  CASE method = "ui/tool-cancelled" /\ onToolCancelled[h] # 0 ->
         {<<h, "onToolCancelled", onToolCancelled[h]>>}
    [] method = "ui/resource-teardown" /\ onTeardown[h] # 0 ->
         {<<h, "onTeardown", onTeardown[h]>>}
    [] OTHER -> {}

\* the functions a caller may assign to the refs, and those of them that throw
Handlers == {1, 2}
Throwing == {2}

\* the handler calls of the listener of hook h that throw
Thrown(h, method) == {c \in InvokedBy(h, method) : c[3] \in Throwing}

\* a dispatch that drops a listener once an exception has left it
AfterUncaught_Dropped(ls, throwers) == ls \ throwers

\* the registered listeners after an exception has left some of them: the handler
\* call is the last statement of its case and nothing in handleMessage catches, so
\* the exception reaches the event dispatch, which reports it and goes on
AfterUncaught(ls, throwers) == ls

\* the response branch, taken by the first registered listener that sees m: a later
\* listener of the same event finds the record gone
HandleResponse(m) ==
  LET hit == MapHas(pendingRequests, m.id)
      pending == MapGet(pendingRequests, m.id)
      id == pending.promise
      p == promises[id]
      q == SettleByResponse(p, m)
      first == p.status = "pending"
      thenRuns == first /\ p.cont = "init" /\ q.status = "fulfilled"
                        /\ ~InitThenThrows(m.result)
      catchRuns == first /\ p.cont = "init"
                         /\ (q.status = "rejected" \/ InitThenThrows(m.result))
  IN
  /\ last' = Step("message", 0, IF hit THEN id ELSE 0, m, hit, {}, {})
  /\ IF hit
     THEN /\ timers' = ClearTimeout(timers, pending.timeout)
          /\ pendingRequests' = MapDelete(pendingRequests, m.id)
          /\ promises' = [promises EXCEPT ![id] = q]
          /\ state' = IF thenRuns
                      THEN [state EXCEPT ![p.hook] = InitThen(@, m.result)]
                      ELSE state
          /\ outbox' = IF thenRuns
                       THEN Append(outbox, NotificationMessage("ui/notifications/initialized"))
                       ELSE outbox
          /\ errorLog' = IF catchRuns THEN errorLog \cup {p.hook} ELSE errorLog
     ELSE UNCHANGED <<timers, pendingRequests, promises, state, outbox, errorLog>>
  /\ UNCHANGED <<listeners, uncaught>>

\* the notification switch, run by the listener of every registered hook
HandleNotification(m) ==
  /\ state' = [h \in Hooks |-> IF h \in listeners THEN Notify(state[h], m) ELSE state[h]]
  /\ last' = Step("message", 0, 0, m, FALSE,
                  IF listeners # {} THEN EventOf(m.method) ELSE {},
                  UNION {InvokedBy(h, m.method) : h \in listeners})
  /\ uncaught' = uncaught \cup UNION {Thrown(h, m.method) : h \in listeners}
  /\ listeners' = AfterUncaught(listeners, {h \in listeners : Thrown(h, m.method) # {}})
  /\ UNCHANGED <<timers, pendingRequests, promises, outbox, errorLog>>

\* a "message" event on window, delivered to every registered handleMessage
handleMessage(m) ==
  /\ listeners # {}
  /\ IF ~IsTagged(m)
     THEN /\ last' = Step("message", 0, 0, m, FALSE, {}, {})
          /\ UNCHANGED <<timers, pendingRequests, promises, state, outbox,
                         errorLog, listeners, uncaught>>
     ELSE IF IsResponse(m) THEN HandleResponse(m) ELSE HandleNotification(m)
  /\ UNCHANGED <<requestId, initialized, mounted, hasCleanup, onToolCancelled,
                 onTeardown, retired, others>>

\* the value a ref keeps when an assignment to it is ignored once it holds a handler
AssignRef_KeepFirst(old, new) == IF old = 0 THEN new ELSE old

\* ref.current = fn
AssignRef(old, new) == new

\* what `last` records of an assignment of handler n to the ref named slot
Registered(h, slot, n) == [Plain("register", h, n) EXCEPT !.method = slot]

\* the handlers an assignment of n to a ref holding old has replaced
Retire(h, slot, old, n) ==
  (retired \cup (IF old # 0 /\ old # n THEN {<<h, slot, old>>} ELSE {})) \ {<<h, slot, n>>}

\* the component assigns a handler to one of the refs the hook returns:
\* onToolCancelled.current = fn, onTeardown.current = fn
SetHandler(h, slot, n) ==
  /\ slot \in {"onToolCancelled", "onTeardown"}
  /\ IF slot = "onToolCancelled"
     THEN /\ onToolCancelled' = [onToolCancelled EXCEPT ![h] = AssignRef(@, n)]
          /\ retired' = Retire(h, slot, onToolCancelled[h], onToolCancelled'[h])
          /\ UNCHANGED onTeardown
     ELSE /\ onTeardown' = [onTeardown EXCEPT ![h] = AssignRef(@, n)]
          /\ retired' = Retire(h, slot, onTeardown[h], onTeardown'[h])
          /\ UNCHANGED onToolCancelled
  /\ last' = Registered(h, slot, n)
  /\ UNCHANGED <<requestId, pendingRequests, timers, promises, outbox, state,
                 initialized, listeners, mounted, hasCleanup, errorLog, uncaught, others>>

-----------------------------------------------------------------------------
(* What the host, or any other script of the page, may post to the window *)

DarkContext == Obj([theme |-> "dark", locale |-> "en-US"])
LightTheme == Obj([theme |-> "light"])

\* results a response may carry: objects with and without hostContext, and null
Results == {ResultObj(1, Undefined), ResultObj(2, DarkContext), NullResult}

RemoteFailure == ErrorObj(-32000, "boom")

\* ids a message may carry: every number sendRequest can allocate, and the string "1"
ResponseIds == {NumId(n) : n \in 1..MaxRequests} \cup {StrId(1)}

Responses ==
  {Message("2.0", i, NoMethod, Undefined, r, NoError) : i \in ResponseIds, r \in Results}
  \cup {Message("2.0", i, NoMethod, Undefined, NoResult, RemoteFailure) : i \in ResponseIds}
  \cup {Message("2.0", i, NoMethod, Undefined, ResultObj(1, Undefined), RemoteFailure) :
          i \in ResponseIds}

\* the notifications the switch of handleMessage has a case for
Notifications ==
  { Message("2.0", NoId, "ui/notifications/tool-input", Obj([arguments |-> "a"]),
            NoResult, NoError),
    Message("2.0", NoId, "ui/notifications/tool-result", Obj([content |-> "c"]),
            NoResult, NoError),
    Message("2.0", NoId, "ui/host-context-change", LightTheme, NoResult, NoError),
    Message("2.0", NoId, "ui/tool-cancelled", Obj([reason |-> "user"]), NoResult, NoError),
    Message("2.0", NoId, "ui/resource-teardown", Obj([reason |-> "closed"]),
            NoResult, NoError) }

\* a notification of a method the switch has no case for
UnknownNotification == Message("2.0", NoId, "context-change", LightTheme, NoResult, NoError)

\* foreign traffic (no protocol tag) and an envelope with an id and nothing else
Foreign ==
  { Message("undefined", NumId(1), NoMethod, Undefined, ResultObj(1, Undefined), NoError),
    Message("2.0", NumId(1), NoMethod, Undefined, NoResult, NoError) }

\* the traffic of the request/response correlator
Inbound == Responses \cup {UnknownNotification} \cup Foreign

-----------------------------------------------------------------------------
(* One hook instance, as the App component creates *)

TheHook == 1

\* the request wrappers differ only in the method they pass to sendRequest
SentMethods == {"tools/call"}

Next ==
  \/ Effect(TheHook)
  \/ Cleanup(TheHook)
  \/ \E method \in SentMethods : AppSend(TheHook, method)
  \/ \E t \in 1..MaxRequests : TimeoutFires(t)
  \/ \E m \in Inbound : handleMessage(m)

Spec == Init /\ [][Next]_vars

-----------------------------------------------------------------------------
(* Request/response correlation *)

\* the pending record, if any, that holds promise t
RecordsOf(t) == {k \in DOMAIN pendingRequests : pendingRequests[k].promise = t}

\* C1: resolve/reject is called at most once on the promise of every request, over
\* all interleavings of responses (duplicates included), timeouts and teardown; as
\* long as the record or the timer of a request exists nothing has settled it, so
\* the path that acts first (a response clears the timer and deletes the record, a
\* timeout deletes the record, teardown does both) leaves nothing for the others.
C1_SettledAtMostOnce ==
  \A t \in 1..Len(promises) :
    /\ promises[t].settles <= 1
    /\ (t \in timers \/ RecordsOf(t) # {}) => promises[t].settles = 0

\* a duplicate of the response that settled a request has just been handled
C1_Witness ==
  \E t \in 1..Len(promises) :
    /\ promises[t].status = "fulfilled"
    /\ promises[t].settles = 1
    /\ last.op = "message" /\ last.jsonrpc = "2.0" /\ last.hasResult
    /\ last.msgId = NumId(promises[t].id)
    /\ ~last.matched

\* C2: the id the next sendRequest will take is not a key of pendingRequests, and no
\* request whose timer is still armed has lost its record to a later send: the
\* record under its id is its own.
C2_FreshIdNotPending ==
  /\ requestId \notin DOMAIN pendingRequests
  /\ \A t \in timers :
       /\ promises[t].id \in DOMAIN pendingRequests
       /\ pendingRequests[promises[t].id].promise = t

\* a request has just been sent while two earlier ones, one settled and one not,
\* had taken ids before it
C2_Witness ==
  /\ last.op = "send"
  /\ Cardinality(DOMAIN pendingRequests) >= 2
  /\ \E t \in 1..Len(promises) : promises[t].settles = 1

\* the timers of the browser are fair: an armed timeout eventually fires unless it
\* is cleared first
FairSpec == Spec /\ \A t \in 1..MaxRequests : WF_vars(TimeoutFires(t))

\* C3: under a fair timer every promise returned by sendRequest is eventually
\* resolved or rejected.
C3_EveryPromiseSettles ==
  \A t \in 1..MaxRequests :
    (Len(promises) >= t) ~> (Len(promises) >= t /\ promises[t].status # "pending")

\* C4: the cleanup of the effect rejects the promise of every request that is pending
\* when it runs.
C4_TeardownRejectsPending ==
  [][\A h \in Hooks :
       (Cleanup(h) /\ hasCleanup[h]) =>
         \A k \in DOMAIN pendingRequests :
           promises'[pendingRequests[k].promise].status = "rejected"]_vars

\* the ui/initialize request of hook h has been answered by the host
InitResponseReceived(h) ==
  \E t \in 1..Len(promises) :
    /\ promises[t].cont = "init" /\ promises[t].hook = h
    /\ \/ promises[t].status = "fulfilled"
       \/ promises[t].status = "rejected"
            /\ promises[t].reason # TimeoutError(promises[t].method)

\* C5: callTool, readResource, sendMessage or openLink called before the
\* ui/initialize response has been received posts nothing to the host and registers
\* no pending record.
C5_SendBeforeInitializeFailsFast ==
  [][\A h \in Hooks, method \in AppMethods :
       (AppSend(h, method) /\ ~InitResponseReceived(h)) =>
         (outbox' = outbox /\ pendingRequests' = pendingRequests)]_vars

-----------------------------------------------------------------------------
(* Timeouts and responses *)

\* promise p was rejected by its timeout, and by nothing else
RejectedByTimeout(p) ==
  /\ p.status = "rejected"
  /\ p.reason = [message |-> "Request timeout: " \o p.method]
  /\ p.settles = 1

\* the promise of the t-th request was rejected by its timeout
TimedOut(t) == RejectedByTimeout(promises[t])

\* the step just taken handled a tagged message carrying an id and a result or error
HandledOutcome ==
  /\ last'.op = "message" /\ last'.jsonrpc = "2.0"
  /\ last'.msgId.t # "undefined"
  /\ last'.hasResult \/ last'.hasError

\* what the correlator owns, and what its continuations write
correlator == <<pendingRequests, timers, promises, state, outbox, errorLog>>

\* C6: when the timeout of a request fires its promise is rejected with the timeout
\* error of its method and its record is gone; a response carrying the id of a
\* timed-out request changes no promise, no record, no timer and no other state.
C6_TimeoutThenLateResponseIgnored ==
  [][/\ last'.op = "timeout" =>
          /\ RejectedByTimeout(promises'[last'.id])
          /\ promises'[last'.id].id \notin DOMAIN pendingRequests'
     /\ (HandledOutcome /\ \E t \in 1..Len(promises) :
                             promises[t].id = last'.msgId.v /\ last'.msgId.t = "number"
                             /\ TimedOut(t))
          => UNCHANGED correlator]_vars

\* a response for a timed-out request has just been handled while another request
\* was pending
C6_Witness ==
  /\ last.op = "message" /\ last.jsonrpc = "2.0" /\ last.hasResult
  /\ \E t \in 1..Len(promises) : TimedOut(t) /\ last.msgId = NumId(promises[t].id)
  /\ DOMAIN pendingRequests # {}

\* C7: handling a response whose id is no key of pendingRequests (a number that is
\* not pending, or a string) changes nothing: not the pending map, the timers, the
\* promises, the connection and notification state, the refs or the counter, and
\* it dispatches no event and invokes no handler.
C7_UnmatchedResponseIsNoOp ==
  [][(HandledOutcome /\ (last'.msgId.t # "number"
                          \/ last'.msgId.v \notin DOMAIN pendingRequests))
       => /\ UNCHANGED <<requestId, correlator, initialized, listeners, mounted,
                         hasCleanup, onToolCancelled, onTeardown>>
          /\ last'.events = {} /\ last'.invoked = {}]_vars

\* a response with the string id "1" has just been handled while request 1 was
\* pending, and request 1 is still pending
C7_Witness ==
  /\ last.op = "message" /\ last.jsonrpc = "2.0" /\ last.hasResult
  /\ last.msgId = StrId(1)
  /\ 1 \in DOMAIN pendingRequests
  /\ \E t \in 1..Len(promises) : promises[t].id = 1 /\ promises[t].status = "pending"

\* m is a tagged response whose numeric id is a key of pendingRequests
Answers(m) ==
  /\ m.jsonrpc = "2.0" /\ m.id.t = "number"
  /\ m.result.t # "undefined" \/ m.error.t = "object"
  /\ m.id.v \in DOMAIN pendingRequests

\* C8: a response with id i settles the promise of the request sent with id i, at
\* the step that handles it, and no other: promises settle in the order their
\* responses arrive, every other promise and record is untouched, and a response
\* with a result and no error fulfils the promise with exactly that result.
C8_ResponseSettlesItsOwnRequest ==
  [][(last'.op = "message" /\ last'.matched) =>
       \A m \in Inbound :
         (handleMessage(m) /\ Answers(m)) =>
           \E t \in 1..Len(promises) :
             /\ promises[t].id = m.id.v
             /\ promises[t].status = "pending" /\ promises'[t].status # "pending"
             /\ \A u \in 1..Len(promises) : u # t => promises'[u] = promises[u]
             /\ pendingRequests' = [k \in DOMAIN pendingRequests \ {m.id.v} |->
                                      pendingRequests[k]]
             /\ m.error.t = "undefined" =>
                  (promises'[t].status = "fulfilled" /\ promises'[t].value = m.result)]_vars

\* a response has just fulfilled a request while a request sent after it had
\* already been fulfilled, with another result
C8_Witness ==
  /\ last.op = "message" /\ last.matched
  /\ promises[last.id].status = "fulfilled"
  /\ \E u \in 1..Len(promises) :
       /\ last.id < u
       /\ promises[u].status = "fulfilled"
       /\ promises[u].value # promises[last.id].value

\* C9 as amended: a response for a pending id that carries an error object rejects
\* the promise with an Error whose message is the remote message (the remote code is
\* not carried), whether or not it also carries a result; a response without an
\* error fulfils it with the result.
C9_ErrorRejectsResultResolves ==
  [][(last'.op = "message" /\ last'.matched) => \A m \in Inbound :
       (handleMessage(m) /\ Answers(m)) =>
         \E t \in 1..Len(promises) :
           /\ promises[t].id = m.id.v
           /\ IF m.error.t = "object"
              THEN /\ promises'[t].status = "rejected"
                   /\ promises'[t].reason = [message |-> m.error.message]
                   /\ promises'[t].value = NoResult
              ELSE /\ promises'[t].status = "fulfilled"
                   /\ promises'[t].value = m.result]_vars

\* a response carrying both a result and an error has just rejected a request
C9_Witness ==
  /\ last.op = "message" /\ last.matched /\ last.hasError /\ last.hasResult
  /\ promises[last.id].status = "rejected"
  /\ promises[last.id].reason = [message |-> RemoteFailure.message]

\* C9 as stated: the rejection carries the remote message and the remote code.
C9_RejectionCarriesCode ==
  [][\A m \in Inbound :
       (handleMessage(m) /\ Answers(m) /\ m.error.t = "object") =>
         \E t \in 1..Len(promises) :
           /\ promises[t].id = m.id.v
           /\ promises'[t].status = "rejected"
           /\ promises'[t].reason.message = m.error.message
           /\ "code" \in DOMAIN promises'[t].reason
           /\ promises'[t].reason.code = m.error.code]_vars

-----------------------------------------------------------------------------
(* Handshake *)

\* the initialized notifications among the messages posted so far
InitializedSent(box) ==
  {k \in 1..Len(box) : box[k].method = "ui/notifications/initialized" /\ box[k].id = NoId}

\* hooks whose ui/initialize request was fulfilled with a result object
Handshaken(ps) ==
  {ps[t].hook : t \in {u \in 1..Len(ps) : /\ ps[u].cont = "init"
                                          /\ ps[u].status = "fulfilled"
                                          /\ ps[u].value.t = "object"}}

-----------------------------------------------------------------------------
(* Failure and teardown *)

\* the ui/initialize request of hook h was rejected, by an error response or by its
\* timeout
InitFailed(h) ==
  \E t \in 1..Len(promises) :
    promises[t].cont = "init" /\ promises[t].hook = h /\ promises[t].status = "rejected"

\* C11: once the ui/initialize request of a hook has been answered with an error or
\* has timed out, a request wrapper called on that hook posts nothing to the host and
\* registers no pending record.
C11_FailedHandshakeIsTerminal ==
  [][\A h \in Hooks, method \in AppMethods :
       (AppSend(h, method) /\ InitFailed(h)) =>
         (outbox' = outbox /\ pendingRequests' = pendingRequests)]_vars

\* the cleanup of the effect of hook h has removed its listener
TornDown(h) == initialized[h] /\ h \notin listeners

\* C12: a request wrapper called after the cleanup of the effect has run creates no
\* pending record.
C12_NoRecordAfterTeardown ==
  [][\A h \in Hooks, method \in AppMethods :
       (AppSend(h, method) /\ TornDown(h)) => pendingRequests' = pendingRequests]_vars

\* the timer handles the pending records hold
RecordTimers == {pendingRequests[k].timeout : k \in DOMAIN pendingRequests}

\* C13: the armed request timers are exactly the timers the pending records hold,
\* one per record, and the ids their callbacks will delete are exactly the keys of
\* pendingRequests: sendRequest arms a timer with each record, and a response, a
\* timeout and the cleanup remove the timer with the record.
C13_TimersMatchRecords ==
  /\ timers = RecordTimers
  /\ {promises[t].id : t \in timers} = DOMAIN pendingRequests
  /\ \A k \in DOMAIN pendingRequests : promises[pendingRequests[k].timeout].id = k
  /\ Cardinality(timers) = Cardinality(DOMAIN pendingRequests)

\* the cleanup has just run while two requests were pending, and no timer is armed
C13_Witness ==
  /\ last.op = "cleanup"
  /\ Cardinality({t \in 1..Len(promises) : promises[t].status = "pending"}) >= 2
  /\ timers = {} /\ pendingRequests = EmptyMap

-----------------------------------------------------------------------------
(* Classification and dispatch of incoming messages *)

\* requests of the host: an id and a method, no result and no error
HostRequests ==
  {Message("2.0", NumId(i), "ui/resource-teardown", Obj([reason |-> "closed"]),
           NoResult, NoError) : i \in 1..MaxRequests}

\* responses that also carry the method of a notification
MethodResponses ==
  {Message("2.0", NumId(i), "ui/tool-cancelled", Obj([reason |-> "user"]),
           ResultObj(1, Undefined), NoError) : i \in 1..MaxRequests}
  \cup {Message("2.0", NumId(1), "ui/resource-teardown", Obj([reason |-> "closed"]),
                NoResult, RemoteFailure)}

\* a notification of a known method without the protocol tag
UntaggedNotification ==
  Message("undefined", NoId, "ui/tool-cancelled", Obj([reason |-> "user"]), NoResult, NoError)

\* the notifications explored with the dispatcher: tool-result takes the path of
\* tool-input with another field of the state
DispatchNotifications ==
  {m \in Notifications : m.method # "ui/notifications/tool-result"}

\* the traffic of the dispatcher
DispatchInbound ==
  DispatchNotifications \cup {UnknownNotification, UntaggedNotification} \cup Foreign
    \cup HostRequests \cup MethodResponses

\* the handler the component registers in this configuration
TheHandler == 1

Slots == {"onToolCancelled", "onTeardown"}

DispatchNext ==
  \/ Effect(TheHook)
  \/ \E method \in SentMethods : AppSend(TheHook, method)
  \/ \E slot \in Slots : SetHandler(TheHook, slot, TheHandler)
  \/ \E m \in DispatchInbound : handleMessage(m)

DispatchSpec == Init /\ [][DispatchNext]_vars

\* everything but the record of the last step
bridge == <<requestId, correlator, initialized, listeners, mounted, hasCleanup,
            onToolCancelled, onTeardown, retired, uncaught>>

\* the step just taken handled a message without the protocol tag, or a tagged one
\* with an id and neither result, error nor method
HandledMalformed ==
  /\ last'.op = "message"
  /\ \/ last'.jsonrpc # "2.0"
     \/ /\ last'.msgId.t # "undefined"
        /\ ~last'.hasResult /\ ~last'.hasError
        /\ last'.method = NoMethod

\* C14: handling a payload without the protocol tag, or a tagged payload with an id
\* and neither result, error nor method, changes nothing (pending map, timers,
\* promises, connection and notification state, refs) and dispatches no event and
\* invokes no handler.
C14_MalformedIsDropped ==
  [][HandledMalformed =>
       (UNCHANGED bridge /\ last'.events = {} /\ last'.invoked = {})]_vars

\* an untagged payload naming ui/tool-cancelled has just been handled while a
\* handler was registered and a request pending, and the widget is not cancelled
C14_Witness ==
  /\ last.op = "message" /\ last.jsonrpc # "2.0"
  /\ last.method = "ui/tool-cancelled"
  /\ onToolCancelled[TheHook] # 0
  /\ DOMAIN pendingRequests # {}
  /\ ~state[TheHook].isCancelled

\* the notification fields of the state of hook h
NotificationState(h) ==
  <<state[h].toolInput, state[h].toolResult, state[h].isCancelled, state[h].isTearingDown>>

\* C15: a tagged message with an id and a result or an error is handled by the
\* response branch only: it dispatches no event, invokes no handler and leaves the
\* notification state alone, also when it carries the method of a notification;
\* every other tagged message leaves the pending map, the timers and the promises
\* alone.
C15_OnePathPerMessage ==
  [][(last'.op = "message" /\ last'.jsonrpc = "2.0") =>
       IF last'.msgId.t # "undefined" /\ (last'.hasResult \/ last'.hasError)
       THEN /\ last'.events = {} /\ last'.invoked = {}
            /\ uncaught' = uncaught
            /\ \A h \in Hooks : NotificationState(h)' = NotificationState(h)
            /\ state' # state => last'.matched
       ELSE /\ ~last'.matched
            /\ UNCHANGED <<pendingRequests, timers, promises>>]_vars

\* a response that carries the method ui/tool-cancelled has just settled its request
\* while a handler was registered, and the widget is not cancelled
C15_Witness ==
  /\ last.op = "message" /\ last.matched
  /\ last.method = "ui/tool-cancelled" /\ last.hasResult
  /\ promises[last.id].status = "fulfilled"
  /\ onToolCancelled[TheHook] # 0
  /\ ~state[TheHook].isCancelled

\* C16: a message with an id and a method and neither result nor error is handled as
\* the notification of that method and params is: the same state update, the same
\* event, the same handler call; the pending map, the timers and the promises are
\* untouched, whatever its id.
C16_HostRequestRoutedByMethod ==
  [][\A m \in HostRequests :
       (/\ last'.op = "message" /\ last'.jsonrpc = "2.0"
        /\ last'.msgId = m.id /\ last'.method = m.method
        /\ ~last'.hasResult /\ ~last'.hasError) =>
         /\ state' = [h \in Hooks |->
                        IF h \in listeners
                        THEN Notify(state[h], [m EXCEPT !.id = NoId]) ELSE state[h]]
         /\ \A h \in listeners : state'[h].isTearingDown
         /\ last'.events = {"mcp:teardown"}
         /\ last'.invoked = {<<h, "onTeardown", onTeardown[h]>> :
                               h \in {g \in listeners : onTeardown[g] # 0}}
         /\ UNCHANGED <<pendingRequests, timers, promises>>]_vars

\* a ui/resource-teardown request carrying the id of a pending request has just been
\* handled: the handler ran and the request is still pending
C16_Witness ==
  /\ last.op = "message" /\ last.method = "ui/resource-teardown"
  /\ ~last.hasResult /\ ~last.hasError
  /\ last.msgId.t = "number" /\ last.msgId.v \in DOMAIN pendingRequests
  /\ promises[pendingRequests[last.msgId.v].promise].status = "pending"
  /\ state[TheHook].isTearingDown
  /\ last.invoked = {<<TheHook, "onTeardown", TheHandler>>}

\* the methods the switch of handleMessage has a case for
KnownMethods == {m.method : m \in Notifications}

\* the step just taken handled a tagged message that is no response
HandledNotification ==
  /\ last'.op = "message" /\ last'.jsonrpc = "2.0"
  /\ ~(last'.msgId.t # "undefined" /\ (last'.hasResult \/ last'.hasError))

\* C17 as amended: a notification whose method the switch has no case for changes
\* nothing, dispatches no event and invokes no handler; a ui/tool-cancelled or
\* ui/resource-teardown notification that finds its ref null invokes nothing and
\* raises no exception, and still sets isCancelled / isTearingDown and dispatches its
\* window event.
C17_UnknownMethodIsNoOp ==
  [][HandledNotification =>
       /\ last'.method \notin KnownMethods =>
            (UNCHANGED bridge /\ last'.events = {} /\ last'.invoked = {})
       /\ (last'.method = "ui/tool-cancelled" /\ \A h \in listeners : onToolCancelled[h] = 0) =>
            /\ last'.invoked = {} /\ uncaught' = uncaught
            /\ \A h \in listeners : state'[h].isCancelled
            /\ last'.events = {"mcp:tool-cancelled"}
       /\ (last'.method = "ui/resource-teardown" /\ \A h \in listeners : onTeardown[h] = 0) =>
            /\ last'.invoked = {} /\ uncaught' = uncaught
            /\ \A h \in listeners : state'[h].isTearingDown
            /\ last'.events = {"mcp:teardown"}]_vars

\* a "context-change" notification carrying a theme has just been handled by a
\* connected hook, whose host context is still null
C17_Witness ==
  /\ last.op = "message" /\ last.jsonrpc = "2.0"
  /\ last.method = "context-change" /\ last.msgId = NoId
  /\ TheHook \in listeners
  /\ state[TheHook].isConnected
  /\ state[TheHook].hostContext = Null

\* C17 as stated: a notification of an unknown method, or of ui/tool-cancelled or
\* ui/resource-teardown while its ref is null, changes no state.
C17_NullSlotIsNoOp ==
  [][(/\ HandledNotification
      /\ \/ last'.method \notin KnownMethods
         \/ last'.method = "ui/tool-cancelled" /\ \A h \in listeners : onToolCancelled[h] = 0
         \/ last'.method = "ui/resource-teardown" /\ \A h \in listeners : onTeardown[h] = 0)
       => UNCHANGED bridge]_vars

-----------------------------------------------------------------------------
(* Handler refs *)

\* the notifications that call a handler ref, and plain responses
HandlerInbound ==
  {m \in Notifications : m.method \in {"ui/tool-cancelled", "ui/resource-teardown"}}
    \cup {Message("2.0", NumId(i), NoMethod, Undefined, ResultObj(1, Undefined), NoError) :
            i \in 1..MaxRequests}

HandlerNext ==
  \/ Effect(TheHook)
  \/ \E method \in SentMethods : AppSend(TheHook, method)
  \/ \E slot \in Slots, n \in Handlers : SetHandler(TheHook, slot, n)
  \/ \E m \in HandlerInbound : handleMessage(m)

HandlerSpec == Init /\ [][HandlerNext]_vars

\* the handler calls the listeners make for a notification of the method
CurrentCalls(method) ==
  CASE method = "ui/tool-cancelled" ->
         {<<h, "onToolCancelled", onToolCancelled[h]>> :
            h \in {g \in listeners : onToolCancelled[g] # 0}}
    [] method = "ui/resource-teardown" ->
         {<<h, "onTeardown", onTeardown[h]>> : h \in {g \in listeners : onTeardown[g] # 0}}
    [] OTHER -> {}

\* C18: an assignment to a handler ref replaces what the ref held, and a
\* notification invokes exactly the handler its ref holds when it arrives: a
\* handler that a later assignment has replaced is not invoked again.
C18_ReplacedHandlerNeverRuns ==
  [][/\ last'.op = "register" =>
          (IF last'.method = "onToolCancelled"
           THEN onToolCancelled'[last'.hook] ELSE onTeardown'[last'.hook]) = last'.id
     /\ last'.op = "message" =>
          /\ last'.invoked \cap retired = {}
          /\ HandledNotification => last'.invoked = CurrentCalls(last'.method)]_vars

\* a ui/tool-cancelled notification has just invoked handler 1 and nothing else,
\* after handler 1 had replaced handler 2 in onToolCancelled
C18_Witness ==
  /\ last.op = "message" /\ last.method = "ui/tool-cancelled"
  /\ last.invoked = {<<TheHook, "onToolCancelled", 1>>}
  /\ <<TheHook, "onToolCancelled", 2>> \in retired

\* C19: once a handler has thrown, the listener is still registered, a response for
\* a pending id still settles its request and removes its record and timer, a
\* notification still updates the state and reaches the handler its ref holds, and
\* the pending map and the timers still agree.
C19_ThrowDoesNotStopDispatch ==
  [][uncaught' # {} =>
       /\ last'.op = "message" => listeners' = listeners
       /\ \A h \in Hooks : (mounted'[h] /\ hasCleanup'[h]) => h \in listeners'
       /\ (HandledOutcome /\ last'.msgId.t = "number"
             /\ last'.msgId.v \in DOMAIN pendingRequests) =>
            /\ last'.matched
            /\ promises[last'.id].status = "pending" /\ promises'[last'.id].status # "pending"
            /\ last'.msgId.v \notin DOMAIN pendingRequests'
            /\ last'.id \notin timers'
       /\ HandledNotification =>
            /\ last'.invoked = CurrentCalls(last'.method)
            /\ last'.method = "ui/tool-cancelled" => \A h \in listeners : state'[h].isCancelled
            /\ last'.method = "ui/resource-teardown" =>
                 \A h \in listeners : state'[h].isTearingDown
       /\ timers' = {pendingRequests'[k].timeout : k \in DOMAIN pendingRequests'}]_vars

\* after the onToolCancelled handler has thrown while handling the notification
\* that cancelled the widget, a response has just settled its request
C19_Witness ==
  /\ <<TheHook, "onToolCancelled", 2>> \in uncaught
  /\ last.op = "message" /\ last.matched
  /\ promises[last.id].status = "fulfilled"
  /\ state[TheHook].isCancelled

-----------------------------------------------------------------------------
(* Two hook instances in one page *)

\* plain responses, with a result or with an error
TwoHookInbound ==
  {Message("2.0", NumId(i), NoMethod, Undefined, ResultObj(1, Undefined), NoError) :
     i \in 1..MaxRequests}
  \cup {Message("2.0", NumId(i), NoMethod, Undefined, NoResult, RemoteFailure) :
          i \in 1..MaxRequests}

TwoHookNext ==
  \/ \E h \in Hooks : Effect(h)
  \/ \E h \in Hooks : Cleanup(h)
  \/ \E h \in Hooks, method \in SentMethods : AppSend(h, method)
  \/ \E t \in 1..MaxRequests : TimeoutFires(t)
  \/ \E m \in TwoHookInbound : handleMessage(m)

TwoHookSpec == Init /\ [][TwoHookNext]_vars

\* the pending records of the requests sent through hook h
RecordsOfHook(h) ==
  {k \in DOMAIN pendingRequests : promises[pendingRequests[k].promise].hook = h}

\* C20: the cleanup of the effect of one hook instance removes no pending record of
\* a request sent through another instance and leaves its timer armed.
C20_TeardownSparesOtherInstance ==
  [][last'.op = "cleanup" =>
       \A h \in Hooks \ {last'.hook} : \A k \in RecordsOfHook(h) :
         /\ k \in DOMAIN pendingRequests'
         /\ pendingRequests'[k] = pendingRequests[k]
         /\ pendingRequests[k].timeout \in timers']_vars

-----------------------------------------------------------------------------
(* Notifications of the widget *)

\* size-change notifications explored
MaxResizes == 2

\* { width, height } as resize passes it on
Sizes == {Obj([width |-> "300", height |-> "200"]), Obj([width |-> "300", height |-> "800"])}

\* the ui/size-change notifications among the messages posted so far
SizeChangesSent == {k \in 1..Len(outbox) : outbox[k].method = "ui/size-change"}

\* resize(width, height): sendNotification("ui/size-change", { width, height })
Resize(h, size) ==
  /\ Cardinality(SizeChangesSent) < MaxResizes
  /\ outbox' = Append(outbox, [NotificationMessage("ui/size-change") EXCEPT !.params = size])
  /\ last' = Plain("resize", h, 0)
  /\ UNCHANGED <<requestId, pendingRequests, timers, promises, state, initialized,
                 listeners, mounted, hasCleanup, errorLog, onToolCancelled, onTeardown,
                 retired, uncaught, others>>

\* the answers of the host to ui/initialize and to a tool call
ResizeInbound ==
  {Message("2.0", NumId(i), NoMethod, Undefined, ResultObj(2, DarkContext), NoError) :
     i \in 1..MaxRequests}

ResizeNext ==
  \/ Effect(TheHook)
  \/ \E method \in SentMethods : AppSend(TheHook, method)
  \/ \E size \in Sizes : Resize(TheHook, size)
  \/ \E m \in ResizeInbound : handleMessage(m)

ResizeSpec == Init /\ [][ResizeNext]_vars

\* the step just taken posted a notification of the method as its last message
Posted(method) ==
  /\ Len(outbox') = Len(outbox) + 1
  /\ outbox'[Len(outbox')].method = method

\* C21: resize posts one ui/size-change message without an id and leaves requestId,
\* the pending map, the timers and the promises as they were; the step that posts
\* the initialized notification posts it without an id, takes no id from requestId,
\* adds no pending record and arms no timer.
C21_NotificationsTakeNoId ==
  [][/\ last'.op = "resize" =>
          /\ Posted("ui/size-change")
          /\ outbox'[Len(outbox')].id = NoId
          /\ outbox'[Len(outbox')].jsonrpc = "2.0"
          /\ UNCHANGED <<requestId, pendingRequests, timers, promises>>
     /\ Posted("ui/notifications/initialized") =>
          /\ outbox'[Len(outbox')].id = NoId
          /\ requestId' = requestId
          /\ DOMAIN pendingRequests' \subseteq DOMAIN pendingRequests
          /\ timers' \subseteq timers
          /\ Len(promises') = Len(promises)]_vars

\* resize has just been called while a request was pending, after the hook had
\* announced initialized
C21_Witness ==
  /\ last.op = "resize"
  /\ outbox[Len(outbox)].method = "ui/size-change"
  /\ DOMAIN pendingRequests # {}
  /\ InitializedSent(outbox) # {}

-----------------------------------------------------------------------------
(* Identifiers and the handshake over effect runs *)

\* C22: requestId never decreases and grows by one with every sendRequest, which
\* takes the value it held; the ids of the requests sent so far are strictly
\* increasing in send order and all below requestId, whatever has settled, timed
\* out or been torn down in between; a response settles only the promise that was
\* created with its id.
C22_IdsNeverReused ==
  [][/\ requestId' >= requestId
     /\ Len(promises') > Len(promises) =>
          (requestId' = requestId + 1 /\ promises'[Len(promises')].id = requestId)
     /\ \A t, u \in 1..Len(promises') : t < u => promises'[t].id < promises'[u].id
     /\ \A t \in 1..Len(promises') : promises'[t].id < requestId'
     /\ (last'.op = "message" /\ last'.matched) =>
          /\ promises'[last'.id].id = last'.msgId.v
          /\ \A u \in 1..Len(promises) : u # last'.id => promises'[u] = promises[u]]_vars

\* a response carrying the id of a request that had timed out has just been
\* handled, while a request sent later is pending
C22_Witness ==
  /\ last.op = "message" /\ ~last.matched /\ last.hasResult
  /\ last.msgId.t = "number"
  /\ \E t, u \in 1..Len(promises) :
       /\ t < u
       /\ promises[t].id = last.msgId.v /\ promises[t].status = "rejected"
       /\ promises[u].status = "pending" /\ u \in timers

\* the ui/initialize requests hook h has sent
InitRequestsOf(h) ==
  {t \in 1..Len(promises) : promises[t].cont = "init" /\ promises[t].hook = h}

\* C23: over any number of effect runs and cleanups a hook sends at most one
\* ui/initialize request and at most one initialized notification, registers its
\* listener only in the effect run that finds initialized false, and never
\* registers it again once the cleanup has removed it.
C23_HandshakeAtMostOnce ==
  [][/\ \A h \in Hooks :
          /\ Cardinality(InitRequestsOf(h)') <= 1
          /\ (h \in listeners' /\ h \notin listeners) => ~initialized[h]
          /\ TornDown(h) => TornDown(h)'
     /\ Cardinality(InitializedSent(outbox')) <=
          Cardinality({h \in Hooks : InitRequestsOf(h)' # {}})]_vars

\* the effect has just run again after a cleanup: it sent nothing, and the hook is
\* mounted without a listener
C23_Witness ==
  /\ last.op = "effect"
  /\ mounted[TheHook] /\ ~hasCleanup[TheHook]
  /\ TheHook \notin listeners
  /\ Cardinality(InitRequestsOf(TheHook)) = 1

-----------------------------------------------------------------------------
(* The state the hook exposes *)

\* a second tool-input, to tell a replacement from a first assignment
OtherToolInput ==
  Message("2.0", NoId, "ui/notifications/tool-input", Obj([arguments |-> "b"]),
          NoResult, NoError)

ContextNotifications == Notifications \cup {OtherToolInput}

\* the answers of the host to ui/initialize
InitResponses ==
  {Message("2.0", NumId(1), NoMethod, Undefined, r, NoError) : r \in Results}
  \cup {Message("2.0", NumId(1), NoMethod, Undefined, NoResult, RemoteFailure)}

ContextInbound == ContextNotifications \cup InitResponses

ContextNext ==
  \/ Effect(TheHook)
  \/ Cleanup(TheHook)
  \/ \E t \in 1..MaxRequests : TimeoutFires(t)
  \/ \E m \in ContextInbound : handleMessage(m)

ContextSpec == Init /\ [][ContextNext]_vars

\* C24: a ui/host-context-change notification leaves an object as host context whose
\* keys are the stored keys and the keys of params, with the value of params where
\* params has the key and the stored value elsewhere, and changes no other field;
\* a tool-input or tool-result notification makes toolInput / toolResult exactly
\* its params and changes no other field.
C24_ContextMergedInputsReplaced ==
  [][last'.op = "message" =>
       \A m \in ContextNotifications : \A h \in listeners :
         handleMessage(m) =>
           /\ m.method = "ui/host-context-change" =>
                /\ state'[h].hostContext.t = "object"
                /\ DOMAIN state'[h].hostContext.f =
                     DOMAIN state[h].hostContext.f \cup DOMAIN m.params.f
                /\ \A k \in DOMAIN m.params.f : state'[h].hostContext.f[k] = m.params.f[k]
                /\ \A k \in DOMAIN state[h].hostContext.f \ DOMAIN m.params.f :
                     state'[h].hostContext.f[k] = state[h].hostContext.f[k]
                /\ state' = [state EXCEPT ![h].hostContext = state'[h].hostContext]
           /\ m.method = "ui/notifications/tool-input" =>
                state' = [state EXCEPT ![h].toolInput = m.params]
           /\ m.method = "ui/notifications/tool-result" =>
                state' = [state EXCEPT ![h].toolResult = m.params]]_vars

\* a host-context-change carrying only a theme has just been merged into a context
\* that held a theme and a locale, after a tool-input had replaced another
C24_Witness ==
  /\ last.op = "message" /\ last.method = "ui/host-context-change"
  /\ state[TheHook].hostContext = Obj([theme |-> "light", locale |-> "en-US"])
  /\ state[TheHook].toolInput = Obj([arguments |-> "b"])
  /\ state[TheHook].toolResult = Obj([content |-> "c"])

C26_FlagsMonotone ==
  [][\A h \in Hooks :
       /\ last.op = "none" =>
            (~state[h].isConnected /\ ~state[h].isCancelled /\ ~state[h].isTearingDown)
       /\ state[h].isConnected => state'[h].isConnected
       /\ state[h].isCancelled => state'[h].isCancelled
       /\ state[h].isTearingDown => state'[h].isTearingDown
       /\ (state'[h].isConnected /\ ~state[h].isConnected) =>
            (last'.op = "message" /\ last'.matched /\ last'.hasResult)
       /\ (state'[h].isCancelled /\ ~state[h].isCancelled) =>
            (last'.op = "message" /\ last'.method = "ui/tool-cancelled")
       /\ (state'[h].isTearingDown /\ ~state[h].isTearingDown) =>
            (last'.op = "message" /\ last'.method = "ui/resource-teardown")]_vars

\* the cleanup has just run on a hook that is connected, cancelled and tearing down
C26_Witness ==
  /\ last.op = "cleanup"
  /\ state[TheHook].isConnected
  /\ state[TheHook].isCancelled
  /\ state[TheHook].isTearingDown

-----------------------------------------------------------------------------
(* server/index.ts: session routing of the /mcp endpoint *)

\* transports the /mcp handler may create
MaxTransports == 3

\* what a request asks of the transport: an initialize POST, any other POST or GET,
\* or a DELETE that ends the session
Kinds == {"initialize", "call", "delete"}

\* the mcp-session-id header: 0 is an absent header; ids that no session has (yet)
\* and ids of closed sessions are among the others
Headers == 0..MaxTransports

\* new StreamableHTTPServerTransport(...): no session id until it is initialized
NewTransport == [sessionId |-> 0, closed |-> FALSE]

\* the transports that have run onsessioninitialized
Initialized == {t \in 1..Len(created) : created[t].sessionId # 0}

\* sessionIdGenerator: () => randomUUID(), an id no transport has been given
randomUUID == Cardinality(Initialized) + 1

\* a routing test that never finds a session
HasSession_Never(map, header) == FALSE

\* sessionId && transports.has(sessionId)
HasSession(map, header) == header # 0 /\ header \in DOMAIN map

\* an onclose that leaves the map alone
OnClose_Keeps(map, transport) == map

\* transport.onclose: if (transport.sessionId) transports.delete(transport.sessionId)
OnClose(map, transport) ==
  IF transport.sessionId # 0
  THEN [k \in DOMAIN map \ {transport.sessionId} |-> map[k]]
  ELSE map

\* onsessioninitialized: (id) => transports.set(id, transport)
OnSessionInitialized(map, id, t) ==
  [k \in DOMAIN map \cup {id} |-> IF k = id THEN t ELSE map[k]]

ServerStep(op, header, kind, t, fresh) ==
  [op |-> op, header |-> header, kind |-> kind, transport |-> t, fresh |-> fresh]

\* transport.handleRequest on a transport that has a session: an initialize is
\* refused, a DELETE closes the transport, which calls onclose
HandleExisting(t, kind) ==
  IF kind = "delete"
  THEN /\ created' = [created EXCEPT ![t].closed = TRUE]
       /\ transports' = OnClose(transports, created[t])
  ELSE UNCHANGED <<created, transports>>

\* app.all("/mcp") up to its first await: an existing session is handled at once,
\* any other request makes a transport and a server and awaits server.connect
McpRequest(header, kind) ==
  /\ IF HasSession(transports, header)
     THEN /\ HandleExisting(transports[header], kind)
          /\ serverLast' = ServerStep("route", header, kind, transports[header], FALSE)
          /\ UNCHANGED <<servers, awaiting>>
     ELSE /\ Len(created) < MaxTransports
          /\ created' = Append(created, NewTransport)
          /\ servers' = Append(servers, Len(created) + 1)
          /\ awaiting' = awaiting \cup {[transport |-> Len(created) + 1, kind |-> kind]}
          /\ serverLast' = ServerStep("new", header, kind, Len(created) + 1, TRUE)
          /\ UNCHANGED transports
  /\ UNCHANGED <<hookVars, cancelVars, sizeVars>>

\* the rest of the handler, after await server.connect(transport):
\* transport.handleRequest on the new transport; an initialize request gives it a
\* session id and calls onsessioninitialized, anything else is refused
McpResume(a) ==
  /\ a \in awaiting
  /\ awaiting' = awaiting \ {a}
  /\ IF a.kind = "initialize"
     THEN /\ created' = [created EXCEPT ![a.transport].sessionId = randomUUID]
          /\ transports' = OnSessionInitialized(transports, randomUUID, a.transport)
     ELSE UNCHANGED <<created, transports>>
  /\ serverLast' = ServerStep("resume", 0, a.kind, a.transport, FALSE)
  /\ UNCHANGED <<servers, hookVars, cancelVars, sizeVars>>

ServerNext ==
  \/ \E header \in Headers, kind \in Kinds : McpRequest(header, kind)
  \/ \E a \in awaiting : McpResume(a)

ServerSpec == Init /\ [][ServerNext]_vars

\* C27: a request whose header names a key of transports is handled by the
\* transport under that key and makes no transport and no server; every other
\* request (no header, an unknown id, the id of a closed session) makes one new
\* transport and one new server connected to it; no two suspended handlers hold the
\* same transport and no two servers are connected to the same transport.
C27_RoutedOrFresh ==
  [][/\ serverLast'.op = "route" =>
          /\ serverLast'.header \in DOMAIN transports
          /\ serverLast'.transport = transports[serverLast'.header]
          /\ Len(created') = Len(created) /\ servers' = servers
          /\ awaiting' = awaiting
     /\ serverLast'.op = "new" =>
          /\ serverLast'.header \notin DOMAIN transports
          /\ Len(created') = Len(created) + 1
          /\ serverLast'.transport = Len(created')
          /\ servers' = Append(servers, serverLast'.transport)
          /\ created'[Len(created')] = NewTransport
          /\ transports' = transports
     /\ \A a, b \in awaiting' : a.transport = b.transport => a = b
     /\ \A j, k \in 1..Len(servers') : servers'[j] = servers'[k] => j = k]_vars

\* a request carrying the id of a closed session has just made a new transport
\* while another new-session request is still suspended
C27_Witness ==
  /\ serverLast.op = "new" /\ serverLast.header # 0
  /\ \E t \in 1..Len(created) :
       created[t].closed /\ created[t].sessionId = serverLast.header
  /\ Cardinality(awaiting) >= 2

\* C28: every key of transports is the sessionId of the transport under it; the
\* transports in the map are exactly those that have been given a session id and
\* are not closed; the session id of a closed transport is no key of the map.
C28_MapHoldsOpenSessions ==
  /\ \A sid \in DOMAIN transports : created[transports[sid]].sessionId = sid
  /\ {transports[sid] : sid \in DOMAIN transports} =
       {t \in 1..Len(created) : created[t].sessionId # 0 /\ ~created[t].closed}
  /\ \A t \in 1..Len(created) :
       created[t].closed => created[t].sessionId \notin DOMAIN transports

\* a DELETE has just closed a session while another session is open and a third
\* transport has no session yet
C28_Witness ==
  /\ serverLast.op = "route" /\ serverLast.kind = "delete"
  /\ created[serverLast.transport].closed
  /\ DOMAIN transports # {}
  /\ \E t \in 1..Len(created) : created[t].sessionId = 0

-----------------------------------------------------------------------------
(* widget/widgets/InteractiveCancellationWidget.tsx *)

\* calls of handleStart explored
MaxRuns == 2

\* ticks of the elapsed-time interval counted
MaxTicks == 2

\* a clearInterval that leaves the interval armed
ClearInterval_Forgotten(armed, handle) == armed

\* clearInterval(handle) on the timer table
ClearInterval(armed, handle) == armed \ {handle}

\* how app.callServerTool settles: a result, a result with isError, a rejection
\* with some Error; once the signal is aborted, a rejection with an AbortError
Outcomes(run) ==
  IF run.aborted THEN {"AbortError"} ELSE {"result", "isError", "Error"}

\* the status handleStart sets for an outcome
StatusOf(outcome) ==
  CASE outcome = "result" -> "completed"
    [] outcome = "isError" -> "error"
    [] outcome = "AbortError" -> "cancelled"
    [] OTHER -> "error"

\* the message of the entry handleStart appends to runHistory for an outcome
HistoryMessage(outcome) ==
  CASE outcome = "result" -> "Completed"
    [] outcome = "isError" -> "Tool error"
    [] outcome = "AbortError" -> "Widget cancelled"
    [] OTHER -> "Error"

WidgetStep(op, r) == [op |-> op, run |-> r]

\* handleStart up to its await, from the Start button, which is rendered while
\* status is "idle": a new controller, status "running", startTimer()
handleStart ==
  /\ status = "idle"
  /\ Len(runs) < MaxRuns
  /\ abortControllerRef' = Len(runs) + 1
  /\ status' = "running"
  /\ message' = "Calling cancellation-test"
  /\ elapsedTime' = 0
  /\ timerRef' = Len(runs) + 1
  /\ intervals' = intervals \cup {Len(runs) + 1}
  /\ runs' = Append(runs, [aborted |-> FALSE, call |-> "inflight"])
  /\ widgetLast' = WidgetStep("start", Len(runs) + 1)
  /\ UNCHANGED <<runHistory, hookVars, serverVars, sizeVars>>

\* the setInterval callback: setElapsedTime(Date.now() - startTimeRef.current)
Tick(i) ==
  /\ i \in intervals
  /\ elapsedTime < MaxTicks
  /\ elapsedTime' = elapsedTime + 1
  /\ widgetLast' = WidgetStep("tick", i)
  /\ UNCHANGED <<status, message, runHistory, abortControllerRef, timerRef, intervals,
                 runs, hookVars, serverVars, sizeVars>>

\* handleCancel
handleCancel ==
  /\ IF abortControllerRef # 0
     THEN /\ runs' = [runs EXCEPT ![abortControllerRef].aborted = TRUE]
          /\ message' = "Cancellation requested..."
     ELSE UNCHANGED <<runs, message>>
  /\ widgetLast' = WidgetStep("cancel", abortControllerRef)
  /\ UNCHANGED <<status, elapsedTime, runHistory, abortControllerRef, timerRef,
                 intervals, hookVars, serverVars, sizeVars>>

\* the rest of handleStart for run r, once its callServerTool has settled: stopTimer(),
\* the status and the history entry of the outcome, and the finally block
Settled(r, outcome) ==
  /\ r \in 1..Len(runs)
  /\ runs[r].call = "inflight"
  /\ outcome \in Outcomes(runs[r])
  /\ runs' = [runs EXCEPT ![r].call = "settled"]
  /\ IF timerRef # 0
     THEN /\ intervals' = ClearInterval(intervals, timerRef)
          /\ timerRef' = 0
     ELSE UNCHANGED <<intervals, timerRef>>
  /\ status' = StatusOf(outcome)
  /\ message' = HistoryMessage(outcome)
  /\ runHistory' = Append(runHistory, [status |-> StatusOf(outcome),
                                       message |-> HistoryMessage(outcome), run |-> r])
  /\ abortControllerRef' = 0
  /\ widgetLast' = WidgetStep("settled", r)
  /\ UNCHANGED <<elapsedTime, hookVars, serverVars, sizeVars>>

\* handleReset, from the Run Again button, rendered once a run has ended
handleReset ==
  /\ status \in {"completed", "cancelled", "error"}
  /\ status' = "idle"
  /\ message' = ""
  /\ elapsedTime' = 0
  /\ widgetLast' = WidgetStep("reset", 0)
  /\ UNCHANGED <<runHistory, abortControllerRef, timerRef, intervals, runs,
                 hookVars, serverVars, sizeVars>>

CancelNext ==
  \/ handleStart
  \/ \E i \in 1..MaxRuns : Tick(i)
  \/ handleCancel
  \/ \E r \in 1..MaxRuns, outcome \in {"result", "isError", "Error", "AbortError"} :
       Settled(r, outcome)
  \/ handleReset

CancelSpec == Init /\ [][CancelNext]_vars

\* the runs whose tool call has not settled
InFlight == {r \in 1..Len(runs) : runs[r].call = "inflight"}

\* C29: after every step, the run history holds one entry for each run that has
\* ended and none for a run in flight, each with status completed, cancelled or
\* error (cancelled exactly when the run was aborted); a run in flight is the only
\* one, status is "running", and the stored controller and the armed interval are
\* its own; with no run in flight the stored controller and timerRef are null, no
\* interval is armed and status is not "running". Cancel with a stored controller
\* aborts the run in flight; Cancel without one changes nothing.
C29_RunLifecycle ==
  [][/\ Len(runHistory') = Cardinality({r \in 1..Len(runs') : runs'[r].call = "settled"})
     /\ \A k \in 1..Len(runHistory') :
          /\ runHistory'[k].run = k /\ runs'[k].call = "settled"
          /\ runHistory'[k].status \in {"completed", "cancelled", "error"}
          /\ runHistory'[k].status = "cancelled" <=> runs'[k].aborted
     /\ \A r \in InFlight' :
          /\ InFlight' = {r}
          /\ status' = "running"
          /\ abortControllerRef' = r
          /\ timerRef' = r /\ intervals' = {r}
     /\ InFlight' = {} =>
          /\ abortControllerRef' = 0
          /\ timerRef' = 0 /\ intervals' = {}
          /\ status' # "running"
     /\ widgetLast'.op = "cancel" =>
          IF abortControllerRef # 0
          THEN runs'[abortControllerRef].aborted /\ abortControllerRef \in InFlight
          ELSE UNCHANGED <<status, message, elapsedTime, runHistory, abortControllerRef,
                           timerRef, intervals, runs>>]_vars

\* Cancel has just been called with no run in flight, after one run was cancelled
\* and another completed
C29_Witness ==
  /\ widgetLast.op = "cancel" /\ widgetLast.run = 0
  /\ InFlight = {}
  /\ Len(runHistory) = 2
  /\ runHistory[1].status = "cancelled"
  /\ runHistory[2].status = "completed"

-----------------------------------------------------------------------------
(* widget/widgets/SizeChangeWidget.tsx *)

PRESET_HEIGHTS == {200, 300, 400, 500, 600, 800}
MIN_HEIGHT == 200
MAX_HEIGHT == 800

\* heights a tool-input or a tool-result may carry
InputHeights == {-50, 0, 199, 300, 450, 801, 5000}

Min(a, b) == IF a < b THEN a ELSE b
Max(a, b) == IF a > b THEN a ELSE b

\* a clamp that only bounds from above
Clamp_NoFloor(x) == Min(MAX_HEIGHT, x)

\* Math.max(MIN_HEIGHT, Math.min(MAX_HEIGHT, x))
Clamp(x) == Max(MIN_HEIGHT, Min(MAX_HEIGHT, x))

SizeStep(op, has, requested, sent) ==
  [op |-> op, has |-> has, requested |-> requested, sent |-> sent]

\* the effects on [toolInput, app] and on [toolResult, app], run when a new
\* tool-input / tool-result arrives: with a height, setHeight and sendSizeChanged of
\* the clamped value; without one, nothing
HeightEffect(op, has, h) ==
  /\ op \in {"tool-input", "tool-result"}
  /\ IF has
     THEN /\ height' = Clamp(h)
          /\ sizeSent' = sizeSent \cup {Clamp(h)}
     ELSE UNCHANGED <<height, sizeSent>>
  /\ sizeLast' = SizeStep(op, has, h, has)
  /\ UNCHANGED <<lastChange, resetArmed, hookVars, serverVars, cancelVars>>

\* handleHeightChange(newHeight), from a preset button
handleHeightChange(newHeight) ==
  /\ IF Clamp(newHeight) = height
     THEN /\ sizeLast' = SizeStep("preset", TRUE, newHeight, FALSE)
          /\ UNCHANGED <<height, lastChange, resetArmed, sizeSent>>
     ELSE /\ sizeSent' = sizeSent \cup {Clamp(newHeight)}
          /\ lastChange' = Clamp(newHeight) - height
          /\ height' = Clamp(newHeight)
          /\ resetArmed' = TRUE
          /\ sizeLast' = SizeStep("preset", TRUE, newHeight, TRUE)
  /\ UNCHANGED <<hookVars, serverVars, cancelVars>>

\* setTimeout(() => setLastChange(null), 1000) fires; another may still be pending
ResetLastChange ==
  /\ resetArmed
  /\ lastChange' = 0
  /\ resetArmed' \in BOOLEAN
  /\ sizeLast' = SizeStep("reset", FALSE, 0, FALSE)
  /\ UNCHANGED <<height, sizeSent, hookVars, serverVars, cancelVars>>

SizeNext ==
  \/ \E op \in {"tool-input", "tool-result"}, h \in InputHeights : HeightEffect(op, TRUE, h)
  \/ \E op \in {"tool-input", "tool-result"} : HeightEffect(op, FALSE, 0)
  \/ \E p \in PRESET_HEIGHTS : handleHeightChange(p)
  \/ ResetLastChange

SizeSpec == Init /\ [][SizeNext]_vars

\* the value of the range [200, 800] nearest to x
Nearest(x) == IF x < 200 THEN 200 ELSE IF x > 800 THEN 800 ELSE x

====
